---------------------------- MODULE Spec2Model ----------------------------
(***************************************************************************)
(* Model of pkg/secret/secret.go of the Spark-on-Kubernetes operator: the  *)
(* annotation scanners FindGCPServiceAccountSecret and FindGeneralSecrets, *)
(* and the builders AddSecretVolumeToPod, MountSecretToContainer and       *)
(* MountServiceAccountSecretToContainer, which append to the slices of a   *)
(* caller-owned v1.Pod / v1.Container.                                     *)
(*                                                                         *)
(* Go strings are TLA+ strings (Len, SubSeq and \o act on them as on Go    *)
(* strings); Go slices are sequences; a Go map is a function, and a range  *)
(* over it visits its keys in an arbitrary order.                          *)
(***************************************************************************)
EXTENDS Naturals, Sequences, FiniteSets, TLC

VARIABLES
    annotations,  \* the annotation map handed to the scanners (read-only)
    pod,          \* the v1.Pod: Spec.Volumes and Spec.Containers
    calls,        \* the calls made so far, oldest first: op, arguments, result
    pc,           \* per goroutine: where it stands in its call
    thr           \* per goroutine: its call, and what it has read

vars == <<annotations, pod, calls, pc, thr>>

---------------------------------------------------------------------------
(* Bounds of the model.                                                    *)

\* The number of calls made on one pod in a sequential run.
MaxCalls == 3

\* The largest number of keys in an annotation map.
MaxAnnotations == 3

\* The number of scans made of one annotation map in a scanning run.
MaxScans == 2

---------------------------------------------------------------------------
(* Constants of the program.                                               *)

GoogleApplicationCredentialsEnvVar == "GOOGLE_APPLICATION_CREDENTIALS"

ServiceAccountJSONKeyFileName == "key.json"

ServiceAccountSecretVolumeName == "gcp-service-account-secret-volume"

\* pkg/config, which secret.go imports, defines the two annotation prefixes.
GCPServiceAccountSecretAnnotationPrefix == "sparkoperator.k8s.io/GCPServiceAccount."

GeneralSecretsAnnotationPrefix == "sparkoperator.k8s.io/secret."

---------------------------------------------------------------------------
(* The values the calls are made with.                                     *)

\* Secret names: the suffix of an annotation key; "" is the empty suffix.
SecretNames == {"", "sa1", "sa2"}

MountPaths == {"/mnt/a", "/mnt/b"}

VolumeNames == {"v1", ServiceAccountSecretVolumeName}

PodSecretNames == {"s1", "s2"}

Containers == {"driver", "executor"}

Goroutines == {"g1", "g2"}

\* Keys that carry neither prefix: one shorter than both, one that both
\* prefixes start with, and one that holds a prefix, but not at its start.
OtherKeys ==
    { "app",
      "sparkoperator.k8s.io/",
      "x" \o GCPServiceAccountSecretAnnotationPrefix \o "sa1" }

AnnotationKeys ==
    {GCPServiceAccountSecretAnnotationPrefix \o s : s \in SecretNames}
        \cup {GeneralSecretsAnnotationPrefix \o s : s \in SecretNames}
        \cup OtherKeys

AnnotationMaps ==
    UNION { [ks -> MountPaths] :
              ks \in {s \in SUBSET AnnotationKeys : Cardinality(s) <= MaxAnnotations} }

NoAnnotations == [k \in {} |-> ""]

\* The iteration orders of a range over a map with key set S.
Orders(S) ==
    {o \in [1..Cardinality(S) -> S] : \A i, j \in DOMAIN o : o[i] = o[j] => i = j}

---------------------------------------------------------------------------
(* strings.HasPrefix and strings.TrimPrefix of the Go standard library.    *)

\* A variant that looks for the prefix anywhere in s (strings.Contains).
HasPrefix_Contains(s, prefix) ==
    \E i \in 1..(Len(s) + 1) :
        i + Len(prefix) - 1 <= Len(s) /\ SubSeq(s, i, i + Len(prefix) - 1) = prefix

HasPrefix(s, prefix) ==
    Len(s) >= Len(prefix) /\ SubSeq(s, 1, Len(prefix)) = prefix

\* A variant that leaves the prefix on.
TrimPrefix_Kept(s, prefix) == s

TrimPrefix(s, prefix) ==
    IF HasPrefix(s, prefix) THEN SubSeq(s, Len(prefix) + 1, Len(s)) ELSE s

---------------------------------------------------------------------------
(* The scanners.  Each takes the order in which the range visits the keys. *)

\* A variant that forgets the entries made so far.
MapPut_Fresh(m, k, v) ==
    [x \in {k} |-> v]

MapPut(m, k, v) ==
    [x \in DOMAIN m \cup {k} |-> IF x = k THEN v ELSE m[x]]

RECURSIVE FindGCPServiceAccountSecretLoop(_, _, _)
FindGCPServiceAccountSecretLoop(anns, order, i) ==
    IF i > Len(order)
    THEN [name |-> "", path |-> "", found |-> FALSE]
    ELSE LET annotation == order[i] IN
         IF HasPrefix(annotation, GCPServiceAccountSecretAnnotationPrefix)
         THEN [name  |-> TrimPrefix(annotation, GCPServiceAccountSecretAnnotationPrefix),
               path  |-> anns[annotation],
               found |-> TRUE]
         ELSE FindGCPServiceAccountSecretLoop(anns, order, i + 1)

FindGCPServiceAccountSecret(anns, order) ==
    FindGCPServiceAccountSecretLoop(anns, order, 1)

RECURSIVE FindGeneralSecretsLoop(_, _, _, _)
FindGeneralSecretsLoop(anns, order, i, secrets) ==
    IF i > Len(order)
    THEN secrets
    ELSE LET annotation == order[i] IN
         IF HasPrefix(annotation, GeneralSecretsAnnotationPrefix)
         THEN LET name == TrimPrefix(annotation, GeneralSecretsAnnotationPrefix)
                  path == anns[annotation]
              IN  FindGeneralSecretsLoop(anns, order, i + 1, MapPut(secrets, name, path))
         ELSE FindGeneralSecretsLoop(anns, order, i + 1, secrets)

FindGeneralSecrets(anns, order) ==
    FindGeneralSecretsLoop(anns, order, 1, NoAnnotations)

---------------------------------------------------------------------------
(* The builders, as functions from the descriptor to the descriptor after  *)
(* the call.                                                               *)

\* A variant that puts the new volume first.
AddSecretVolumeToPod_Prepend(secretVolumeName, secretName, p) ==
    LET volume == [Name         |-> secretVolumeName,
                   VolumeSource |-> [Secret |-> [SecretName |-> secretName]]]
    IN  [p EXCEPT !.Spec.Volumes = <<volume>> \o p.Spec.Volumes]

\* A variant that adds no volume when one of that name is there already.
AddSecretVolumeToPod_Unique(secretVolumeName, secretName, p) ==
    LET volume == [Name         |-> secretVolumeName,
                   VolumeSource |-> [Secret |-> [SecretName |-> secretName]]]
    IN  IF \E i \in DOMAIN p.Spec.Volumes : p.Spec.Volumes[i].Name = secretVolumeName
        THEN p
        ELSE [p EXCEPT !.Spec.Volumes = Append(p.Spec.Volumes, volume)]

\* A variant that also mounts the new volume into every container of the pod.
AddSecretVolumeToPod_AlsoMounts(secretVolumeName, secretName, p) ==
    LET volume == [Name         |-> secretVolumeName,
                   VolumeSource |-> [Secret |-> [SecretName |-> secretName]]]
        volumeMount == [Name |-> secretVolumeName, ReadOnly |-> TRUE, MountPath |-> "/mnt/a"]
    IN  [p EXCEPT !.Spec.Volumes = Append(p.Spec.Volumes, volume),
                  !.Spec.Containers =
                      [c \in DOMAIN p.Spec.Containers |->
                          [p.Spec.Containers[c] EXCEPT
                              !.VolumeMounts = Append(p.Spec.Containers[c].VolumeMounts,
                                                      volumeMount)]]]

AddSecretVolumeToPod(secretVolumeName, secretName, p) ==
    LET volume == [Name         |-> secretVolumeName,
                   VolumeSource |-> [Secret |-> [SecretName |-> secretName]]]
    IN  [p EXCEPT !.Spec.Volumes = Append(p.Spec.Volumes, volume)]

\* A variant that takes its two string arguments in the other order.
MountSecretToContainer_Swapped(volumeName, mountPath, container) ==
    LET volumeMount == [Name      |-> mountPath,
                        ReadOnly  |-> TRUE,
                        MountPath |-> volumeName]
    IN  [container EXCEPT !.VolumeMounts = Append(container.VolumeMounts, volumeMount)]

\* A variant that leaves ReadOnly at its zero value.
MountSecretToContainer_Writable(volumeName, mountPath, container) ==
    LET volumeMount == [Name      |-> volumeName,
                        ReadOnly  |-> FALSE,
                        MountPath |-> mountPath]
    IN  [container EXCEPT !.VolumeMounts = Append(container.VolumeMounts, volumeMount)]

\* A variant that replaces a mount of the same volume instead of adding one.
MountSecretToContainer_Replace(volumeName, mountPath, container) ==
    LET volumeMount == [Name      |-> volumeName,
                        ReadOnly  |-> TRUE,
                        MountPath |-> mountPath]
        old == container.VolumeMounts
    IN  IF \E i \in DOMAIN old : old[i].Name = volumeName
        THEN [container EXCEPT !.VolumeMounts =
                 [i \in DOMAIN old |-> IF old[i].Name = volumeName THEN volumeMount ELSE old[i]]]
        ELSE [container EXCEPT !.VolumeMounts = Append(old, volumeMount)]

MountSecretToContainer(volumeName, mountPath, container) ==
    LET volumeMount == [Name      |-> volumeName,
                        ReadOnly  |-> TRUE,
                        MountPath |-> mountPath]
    IN  [container EXCEPT !.VolumeMounts = Append(container.VolumeMounts, volumeMount)]

\* A variant that joins the path and the file name with no separator ("%s%s").
MountServiceAccountSecretToContainer_NoSeparator(mountPath, container) ==
    LET mounted == MountSecretToContainer(ServiceAccountSecretVolumeName, mountPath, container)
        jsonKeyFilePath == mountPath \o ServiceAccountJSONKeyFileName
        appCredentialEnvVar == [Name  |-> GoogleApplicationCredentialsEnvVar,
                                Value |-> jsonKeyFilePath]
    IN  [mounted EXCEPT !.Env = Append(mounted.Env, appCredentialEnvVar)]

MountServiceAccountSecretToContainer(mountPath, container) ==
    LET mounted == MountSecretToContainer(ServiceAccountSecretVolumeName, mountPath, container)
        jsonKeyFilePath == mountPath \o "/" \o ServiceAccountJSONKeyFileName
        appCredentialEnvVar == [Name  |-> GoogleApplicationCredentialsEnvVar,
                                Value |-> jsonKeyFilePath]
    IN  [mounted EXCEPT !.Env = Append(mounted.Env, appCredentialEnvVar)]

---------------------------------------------------------------------------
(* The state after construction.                                           *)

EmptyContainer == [VolumeMounts |-> <<>>, Env |-> <<>>]

EmptyPod ==
    [Spec |-> [Volumes    |-> <<>>,
               Containers |-> [c \in Containers |-> EmptyContainer]]]

\* A goroutine's call: the operation, its arguments and container, the slice it
\* has read, the pod as it was when the call was made, whether the goroutine was
\* the first to make a call and whether another call was then under way.
NoCall == [op |-> "none", args |-> <<>>, container |-> "", read |-> <<>>,
           entry |-> EmptyPod, first |-> FALSE, concurrent |-> FALSE]

Idle ==
    /\ pc = [g \in Goroutines |-> "idle"]
    /\ thr = [g \in Goroutines |-> NoCall]

\* An annotation map with one key of each kind.
PodAnnotations ==
    [k \in {GCPServiceAccountSecretAnnotationPrefix \o "sa1",
            GeneralSecretsAnnotationPrefix \o "sa2",
            "app"} |-> IF k = "app" THEN "/mnt/b" ELSE "/mnt/a"]

Init ==
    /\ annotations \in {NoAnnotations, PodAnnotations}
    /\ pod = EmptyPod
    /\ calls = <<>>
    /\ Idle

---------------------------------------------------------------------------
(* Sequential use: one call at a time, each running to completion.         *)

Called(op, args, container, ret) ==
    calls' = Append(calls, [op |-> op, args |-> args, container |-> container, ret |-> ret])

CallAddSecretVolumeToPod ==
    /\ Len(calls) < MaxCalls
    /\ \E secretVolumeName \in VolumeNames, secretName \in PodSecretNames :
          /\ pod' = AddSecretVolumeToPod(secretVolumeName, secretName, pod)
          /\ Called("AddSecretVolumeToPod", <<secretVolumeName, secretName>>, "", "")
    /\ UNCHANGED <<annotations, pc, thr>>

CallMountSecretToContainer ==
    /\ Len(calls) < MaxCalls
    /\ \E volumeName \in VolumeNames, mountPath \in MountPaths, c \in Containers :
          /\ pod' = [pod EXCEPT !.Spec.Containers[c] =
                        MountSecretToContainer(volumeName, mountPath, pod.Spec.Containers[c])]
          /\ Called("MountSecretToContainer", <<volumeName, mountPath>>, c, "")
    /\ UNCHANGED <<annotations, pc, thr>>

CallMountServiceAccountSecretToContainer ==
    /\ Len(calls) < MaxCalls
    /\ \E mountPath \in MountPaths, c \in Containers :
          /\ pod' = [pod EXCEPT !.Spec.Containers[c] =
                        MountServiceAccountSecretToContainer(mountPath, pod.Spec.Containers[c])]
          /\ Called("MountServiceAccountSecretToContainer", <<mountPath>>, c, "")
    /\ UNCHANGED <<annotations, pc, thr>>

CallFindGCPServiceAccountSecret(limit) ==
    /\ Len(calls) < limit
    /\ \E order \in Orders(DOMAIN annotations) :
          Called("FindGCPServiceAccountSecret", <<>>, "",
                 FindGCPServiceAccountSecret(annotations, order))
    /\ UNCHANGED <<annotations, pod, pc, thr>>

CallFindGeneralSecrets(limit) ==
    /\ Len(calls) < limit
    /\ \E order \in Orders(DOMAIN annotations) :
          Called("FindGeneralSecrets", <<>>, "",
                 FindGeneralSecrets(annotations, order))
    /\ UNCHANGED <<annotations, pod, pc, thr>>

Next ==
    \/ CallAddSecretVolumeToPod
    \/ CallMountSecretToContainer
    \/ CallMountServiceAccountSecretToContainer
    \/ CallFindGCPServiceAccountSecret(MaxCalls)
    \/ CallFindGeneralSecrets(MaxCalls)

Spec == Init /\ [][Next]_vars

---------------------------------------------------------------------------
(* Scanning: every annotation map within the bounds, scanned repeatedly.   *)

InitScan ==
    /\ annotations \in AnnotationMaps
    /\ pod = EmptyPod
    /\ calls = <<>>
    /\ Idle

NextScan ==
    \/ CallFindGCPServiceAccountSecret(MaxScans)
    \/ CallFindGeneralSecrets(MaxScans)

SpecScan == InitScan /\ [][NextScan]_vars

---------------------------------------------------------------------------
(* Sequential use of a pod that already has content, none of it made by    *)
(* this package's calls in the run: volumes, a writable mount, a variable. *)

BusyContainer ==
    [VolumeMounts |-> << [Name |-> "scratch", ReadOnly |-> FALSE, MountPath |-> "/mnt/a"],
                         [Name |-> "v1", ReadOnly |-> TRUE, MountPath |-> "/mnt/a"] >>,
     Env          |-> << [Name |-> GoogleApplicationCredentialsEnvVar,
                          Value |-> "/mnt/b/key.json"] >>]

BusyVolumes ==
    << [Name |-> "scratch", VolumeSource |-> [EmptyDir |-> TRUE]],
       [Name |-> "v1", VolumeSource |-> [Secret |-> [SecretName |-> "s1"]]] >>

PrePods ==
    { EmptyPod,
      [Spec |-> [Volumes    |-> BusyVolumes,
                 Containers |-> [c \in Containers |-> BusyContainer]]],
      [Spec |-> [Volumes    |-> <<>>,
                 Containers |-> [c \in Containers |->
                                    IF c = "driver" THEN BusyContainer ELSE EmptyContainer]]] }

InitPre ==
    /\ annotations = NoAnnotations
    /\ pod \in PrePods
    /\ calls = <<>>
    /\ Idle

NextPre ==
    \/ CallAddSecretVolumeToPod
    \/ CallMountSecretToContainer
    \/ CallMountServiceAccountSecretToContainer

SpecPre == InitPre /\ [][NextPre]_vars

---------------------------------------------------------------------------
(* Concurrent use: two goroutines, each making one call on the same pod,   *)
(* with no synchronisation.  A statement x = append(x, e) reads the slice  *)
(* x, then writes the extended slice back; the other goroutine may run     *)
(* between the two.  (When the two appends share a backing array the entry *)
(* each writes lands in the same slot, which leaves one of the two entries *)
(* as well: the outcomes are those of the read and the write modelled.)    *)

Busy(g) == pc[g] \notin {"idle", "done"}

Enter(g, op, args, container, at) ==
    /\ pc[g] = "idle"
    /\ pc' = [pc EXCEPT ![g] = at]
    /\ thr' = [thr EXCEPT ![g] =
                  [op |-> op, args |-> args, container |-> container, read |-> <<>>,
                   entry |-> pod,
                   first |-> \A h \in Goroutines : pc[h] = "idle",
                   concurrent |-> \E h \in Goroutines \ {g} : Busy(h)]]
    /\ UNCHANGED <<annotations, pod, calls>>

GoAddSecretVolumeToPod(g) ==
    \E secretVolumeName \in VolumeNames, secretName \in PodSecretNames :
        Enter(g, "AddSecretVolumeToPod", <<secretVolumeName, secretName>>, "", "readVolumes")

GoMountSecretToContainer(g) ==
    \E volumeName \in VolumeNames, mountPath \in MountPaths, c \in Containers :
        Enter(g, "MountSecretToContainer", <<volumeName, mountPath>>, c, "readVolumeMounts")

GoMountServiceAccountSecretToContainer(g) ==
    \E mountPath \in MountPaths, c \in Containers :
        Enter(g, "MountServiceAccountSecretToContainer", <<mountPath>>, c, "readVolumeMounts")

\* The right-hand side of line 51 reads pod.Spec.Volumes.
ReadVolumes(g) ==
    /\ pc[g] = "readVolumes"
    /\ thr' = [thr EXCEPT ![g].read = pod.Spec.Volumes]
    /\ pc' = [pc EXCEPT ![g] = "writeVolumes"]
    /\ UNCHANGED <<annotations, pod, calls>>

\* Line 51 assigns pod.Spec.Volumes the slice appended to.
WriteVolumes(g) ==
    /\ pc[g] = "writeVolumes"
    /\ LET seen == [pod EXCEPT !.Spec.Volumes = thr[g].read]
       IN  pod' = [pod EXCEPT !.Spec.Volumes =
                      AddSecretVolumeToPod(thr[g].args[1], thr[g].args[2], seen).Spec.Volumes]
    /\ pc' = [pc EXCEPT ![g] = "done"]
    /\ UNCHANGED <<annotations, calls, thr>>

\* The right-hand side of line 61 reads container.VolumeMounts.
ReadVolumeMounts(g) ==
    /\ pc[g] = "readVolumeMounts"
    /\ thr' = [thr EXCEPT ![g].read = pod.Spec.Containers[thr[g].container].VolumeMounts]
    /\ pc' = [pc EXCEPT ![g] = "writeVolumeMounts"]
    /\ UNCHANGED <<annotations, pod, calls>>

\* Line 61 assigns container.VolumeMounts; a call of line 95 goes on to line 96.
WriteVolumeMounts(g) ==
    /\ pc[g] = "writeVolumeMounts"
    /\ LET c == thr[g].container
           seen == [pod.Spec.Containers[c] EXCEPT !.VolumeMounts = thr[g].read]
           after == IF thr[g].op = "MountSecretToContainer"
                    THEN MountSecretToContainer(thr[g].args[1], thr[g].args[2], seen)
                    ELSE MountServiceAccountSecretToContainer(thr[g].args[1], seen)
       IN  pod' = [pod EXCEPT !.Spec.Containers[c].VolumeMounts = after.VolumeMounts]
    /\ pc' = [pc EXCEPT ![g] =
                 IF thr[g].op = "MountSecretToContainer" THEN "done" ELSE "readEnv"]
    /\ UNCHANGED <<annotations, calls, thr>>

\* The right-hand side of line 98 reads container.Env.
ReadEnv(g) ==
    /\ pc[g] = "readEnv"
    /\ thr' = [thr EXCEPT ![g].read = pod.Spec.Containers[thr[g].container].Env]
    /\ pc' = [pc EXCEPT ![g] = "writeEnv"]
    /\ UNCHANGED <<annotations, pod, calls>>

\* Line 98 assigns container.Env.
WriteEnv(g) ==
    /\ pc[g] = "writeEnv"
    /\ LET c == thr[g].container
           seen == [pod.Spec.Containers[c] EXCEPT !.Env = thr[g].read]
       IN  pod' = [pod EXCEPT !.Spec.Containers[c].Env =
                      MountServiceAccountSecretToContainer(thr[g].args[1], seen).Env]
    /\ pc' = [pc EXCEPT ![g] = "done"]
    /\ UNCHANGED <<annotations, calls, thr>>

InitConc ==
    /\ annotations = NoAnnotations
    /\ pod \in PrePods
    /\ calls = <<>>
    /\ Idle

NextConc ==
    \E g \in Goroutines :
        \/ GoAddSecretVolumeToPod(g)
        \/ GoMountSecretToContainer(g)
        \/ GoMountServiceAccountSecretToContainer(g)
        \/ ReadVolumes(g)
        \/ WriteVolumes(g)
        \/ ReadVolumeMounts(g)
        \/ WriteVolumeMounts(g)
        \/ ReadEnv(g)
        \/ WriteEnv(g)

SpecConc == InitConc /\ [][NextConc]_vars

---------------------------------------------------------------------------
(* What the claims speak of.                                               *)

\* The strings s ends with, "" among them.
Suffixes(s) == {SubSeq(s, i, Len(s)) : i \in 1..(Len(s) + 1)}

\* s is prefix followed by something.
StartsWith(s, prefix) == \E rest \in Suffixes(s) : s = prefix \o rest

\* What follows prefix in s.
After(s, prefix) == CHOOSE rest \in Suffixes(s) : s = prefix \o rest

Matching(prefix) == {k \in DOMAIN annotations : StartsWith(k, prefix)}

CallsOf(op) == {i \in DOMAIN calls : calls[i].op = op}

---------------------------------------------------------------------------
(* C1: when at least one key of the annotation map starts with the GCP     *)
(* service-account prefix, FindGCPServiceAccountSecret returns found=true  *)
(* with the suffix of one matching key as name and the value under that    *)
(* same key as path; when exactly one key prefix+s -> v matches, it        *)
(* returns exactly (s, v, true), whatever other keys are present.          *)
C1_FindGCPServiceAccountSecretFound ==
    \A i \in CallsOf("FindGCPServiceAccountSecret") :
        LET r == calls[i].ret
            matching == Matching(GCPServiceAccountSecretAnnotationPrefix)
        IN  matching # {} =>
              /\ r.found = TRUE
              /\ \E k \in matching :
                    /\ k = GCPServiceAccountSecretAnnotationPrefix \o r.name
                    /\ r.path = annotations[k]
              /\ \A k \in matching :
                    matching = {k} =>
                        r = [name  |-> After(k, GCPServiceAccountSecretAnnotationPrefix),
                             path  |-> annotations[k],
                             found |-> TRUE]

\* Two scans of one map with several matching keys, other keys beside them,
\* that return different keys: one with the empty suffix, one without.
C1_Witness ==
    /\ Cardinality(Matching(GCPServiceAccountSecretAnnotationPrefix)) >= 2
    /\ DOMAIN annotations # Matching(GCPServiceAccountSecretAnnotationPrefix)
    /\ \E i, j \in CallsOf("FindGCPServiceAccountSecret") :
          /\ calls[i].ret.found /\ calls[i].ret.name = ""
          /\ calls[j].ret.found /\ calls[j].ret.name # ""
          /\ calls[i].ret.path # calls[j].ret.path

(* C2: when no key of the annotation map (the empty map included) starts   *)
(* with the GCP service-account prefix, FindGCPServiceAccountSecret        *)
(* returns ("", "", false): a flag, no error value.                        *)
C2_FindGCPServiceAccountSecretNotFound ==
    \A i \in CallsOf("FindGCPServiceAccountSecret") :
        Matching(GCPServiceAccountSecretAnnotationPrefix) = {} =>
            calls[i].ret = [name |-> "", path |-> "", found |-> FALSE]

\* A scan of a map whose keys hold the prefix, but none at its start.
C2_Witness ==
    /\ Matching(GCPServiceAccountSecretAnnotationPrefix) = {}
    /\ "x" \o GCPServiceAccountSecretAnnotationPrefix \o "sa1" \in DOMAIN annotations
    /\ Cardinality(DOMAIN annotations) >= 2
    /\ \E i \in CallsOf("FindGCPServiceAccountSecret") : calls[i].ret.found = FALSE

(* C3: FindGeneralSecrets returns the map with exactly one entry           *)
(* suffix -> value for each key prefix+suffix -> value that starts with    *)
(* the general-secrets prefix, and nothing else: as many entries as        *)
(* matching keys, the same map whatever the iteration order, the empty map *)
(* when no key matches.                                                    *)
C3_FindGeneralSecretsExact ==
    LET matching == Matching(GeneralSecretsAnnotationPrefix)
        names == {After(k, GeneralSecretsAnnotationPrefix) : k \in matching}
    IN  /\ \A i \in CallsOf("FindGeneralSecrets") :
              LET r == calls[i].ret
              IN  /\ DOMAIN r = names
                  /\ \A k \in matching :
                        r[After(k, GeneralSecretsAnnotationPrefix)] = annotations[k]
                  /\ Cardinality(DOMAIN r) = Cardinality(matching)
                  /\ matching = {} => r = NoAnnotations
        /\ \A i, j \in CallsOf("FindGeneralSecrets") : calls[i].ret = calls[j].ret

\* Two scans of a map with two general-secret keys of different values and a
\* key without the prefix: each returns two entries.
C3_Witness ==
    /\ Cardinality(Matching(GeneralSecretsAnnotationPrefix)) = 2
    /\ DOMAIN annotations # Matching(GeneralSecretsAnnotationPrefix)
    /\ \E k1, k2 \in Matching(GeneralSecretsAnnotationPrefix) :
          annotations[k1] # annotations[k2]
    /\ Cardinality(CallsOf("FindGeneralSecrets")) = 2
    /\ \A i \in CallsOf("FindGeneralSecrets") : Cardinality(DOMAIN calls[i].ret) = 2

---------------------------------------------------------------------------
\* The calls of the given operations, oldest first.
CallsAmong(ops) == SelectSeq(calls, LAMBDA k : k.op \in ops)

\* A step that makes a call, and the call it makes.
MakesCall == Len(calls') = Len(calls) + 1

NewCall == calls'[Len(calls')]

IsPrefixOf(s, t) == Len(s) <= Len(t) /\ SubSeq(t, 1, Len(s)) = s

(* C4: on a pod that starts with no volumes, after the calls               *)
(* AddSecretVolumeToPod(v1, s1), ..., (vn, sn) the pod's volumes are       *)
(* exactly [(v1, s1), ..., (vn, sn)] in call order: each call adds one     *)
(* volume, last, with Name = secretVolumeName and secret = secretName.     *)
C4_VolumesInCallOrder ==
    LET adds == CallsAmong({"AddSecretVolumeToPod"})
    IN  /\ Len(pod.Spec.Volumes) = Len(adds)
        /\ \A i \in DOMAIN adds :
              /\ pod.Spec.Volumes[i].Name = adds[i].args[1]
              /\ pod.Spec.Volumes[i].VolumeSource.Secret.SecretName = adds[i].args[2]
              /\ DOMAIN pod.Spec.Volumes[i] = {"Name", "VolumeSource"}
              /\ DOMAIN pod.Spec.Volumes[i].VolumeSource = {"Secret"}

\* ("v1", "s1") then ("gcp-service-account-secret-volume", "s2"), as the pod's
\* two volumes in that order.
C4_Witness ==
    /\ Len(pod.Spec.Volumes) = 2
    /\ pod.Spec.Volumes[1].Name = "v1"
    /\ pod.Spec.Volumes[1].VolumeSource.Secret.SecretName = "s1"
    /\ pod.Spec.Volumes[2].Name = "gcp-service-account-secret-volume"
    /\ pod.Spec.Volumes[2].VolumeSource.Secret.SecretName = "s2"
    /\ Len(CallsAmong({"AddSecretVolumeToPod"})) = 2

(* C5: each call of MountSecretToContainer lengthens the container's       *)
(* volume mounts by exactly one, and the new last mount has                *)
(* Name = volumeName, MountPath = mountPath and ReadOnly = true; on an     *)
(* empty container the result is exactly that one mount.                   *)
C5_MountAppended ==
    [][ (MakesCall /\ NewCall.op = "MountSecretToContainer") =>
          LET c == NewCall.container
              before == pod.Spec.Containers[c].VolumeMounts
              after == pod'.Spec.Containers[c].VolumeMounts
              mount == [Name |-> NewCall.args[1], MountPath |-> NewCall.args[2],
                        ReadOnly |-> TRUE]
          IN  /\ Len(after) = Len(before) + 1
              /\ after[Len(after)] = mount
              /\ before = <<>> => after = <<mount>> ]_vars

\* Mounting "v1" at "/mnt/a" into the empty driver container: one mount.
C5_Witness ==
    /\ Len(calls) = 1
    /\ calls[1].op = "MountSecretToContainer"
    /\ calls[1].args = <<"v1", "/mnt/a">>
    /\ calls[1].container = "driver"
    /\ pod.Spec.Containers["driver"].VolumeMounts =
          << [Name |-> "v1", MountPath |-> "/mnt/a", ReadOnly |-> TRUE] >>

(* C7: starting from empty containers, after any sequence of calls every   *)
(* volume mount of every container has ReadOnly = true.                    *)
C7_MountsReadOnly ==
    \A c \in Containers :
        \A i \in DOMAIN pod.Spec.Containers[c].VolumeMounts :
            pod.Spec.Containers[c].VolumeMounts[i].ReadOnly = TRUE

\* A container mounted into by both MountSecretToContainer and
\* MountServiceAccountSecretToContainer.
C7_Witness ==
    \E c \in Containers :
        /\ \E i \in DOMAIN calls :
              calls[i].op = "MountSecretToContainer" /\ calls[i].container = c
        /\ \E i \in DOMAIN calls :
              calls[i].op = "MountServiceAccountSecretToContainer" /\ calls[i].container = c
        /\ Len(pod.Spec.Containers[c].VolumeMounts) = 3

(* C8: on a pod with content of its own, every call leaves the volumes,    *)
(* the volume mounts and the variables it found as a prefix of those it    *)
(* leaves, and a call whose volume name, mount or variable name is already *)
(* there is not rejected: it appends a further entry all the same.         *)
C8_AppendOnly ==
    [][ /\ IsPrefixOf(pod.Spec.Volumes, pod'.Spec.Volumes)
        /\ \A c \in Containers :
              /\ IsPrefixOf(pod.Spec.Containers[c].VolumeMounts,
                            pod'.Spec.Containers[c].VolumeMounts)
              /\ IsPrefixOf(pod.Spec.Containers[c].Env, pod'.Spec.Containers[c].Env)
        /\ (MakesCall /\ NewCall.op = "AddSecretVolumeToPod") =>
              Len(pod'.Spec.Volumes) = Len(pod.Spec.Volumes) + 1
        /\ (MakesCall /\ NewCall.op = "MountSecretToContainer") =>
              Len(pod'.Spec.Containers[NewCall.container].VolumeMounts)
                  = Len(pod.Spec.Containers[NewCall.container].VolumeMounts) + 1
        /\ (MakesCall /\ NewCall.op = "MountServiceAccountSecretToContainer") =>
              /\ Len(pod'.Spec.Containers[NewCall.container].VolumeMounts)
                    = Len(pod.Spec.Containers[NewCall.container].VolumeMounts) + 1
              /\ Len(pod'.Spec.Containers[NewCall.container].Env)
                    = Len(pod.Spec.Containers[NewCall.container].Env) + 1 ]_vars

\* The pod's own volume, mount and variable, each there a second time after a
\* call with the same names.
C8_Witness ==
    LET d == pod.Spec.Containers["driver"]
    IN  /\ Len(calls) = 3
        /\ IsPrefixOf(BusyVolumes, pod.Spec.Volumes)
        /\ Len(pod.Spec.Volumes) = 3 /\ pod.Spec.Volumes[3] = pod.Spec.Volumes[2]
        /\ IsPrefixOf(BusyContainer.VolumeMounts, d.VolumeMounts)
        /\ \E i \in 3..Len(d.VolumeMounts) : d.VolumeMounts[i] = d.VolumeMounts[2]
        /\ Len(d.Env) = 2 /\ d.Env[2] = d.Env[1]

(* C9: AddSecretVolumeToPod changes the pod's volumes alone;               *)
(* MountSecretToContainer changes the volume mounts of the given container *)
(* alone; MountServiceAccountSecretToContainer changes the volume mounts   *)
(* and variables of the given container alone and adds no pod volume; the  *)
(* two scanners change neither the annotation map nor the pod.             *)
C9_Frames ==
    [][ MakesCall =>
          LET k == NewCall
              others == Containers \ {k.container}
          IN  /\ annotations' = annotations
              /\ k.op = "AddSecretVolumeToPod" =>
                    /\ pod'.Spec.Containers = pod.Spec.Containers
                    /\ pod'.Spec.Volumes # pod.Spec.Volumes
              /\ k.op = "MountSecretToContainer" =>
                    /\ pod'.Spec.Volumes = pod.Spec.Volumes
                    /\ \A c \in others : pod'.Spec.Containers[c] = pod.Spec.Containers[c]
                    /\ pod'.Spec.Containers[k.container].Env
                          = pod.Spec.Containers[k.container].Env
                    /\ pod'.Spec.Containers[k.container].VolumeMounts
                          # pod.Spec.Containers[k.container].VolumeMounts
              /\ k.op = "MountServiceAccountSecretToContainer" =>
                    /\ pod'.Spec.Volumes = pod.Spec.Volumes
                    /\ \A c \in others : pod'.Spec.Containers[c] = pod.Spec.Containers[c]
                    /\ pod'.Spec.Containers[k.container].Env
                          # pod.Spec.Containers[k.container].Env
                    /\ pod'.Spec.Containers[k.container].VolumeMounts
                          # pod.Spec.Containers[k.container].VolumeMounts
              /\ k.op \in {"FindGCPServiceAccountSecret", "FindGeneralSecrets"} =>
                    pod' = pod ]_vars

\* After a scan that found the secret, a credential mount and a mount of "v1"
\* in the driver, both naming volumes the pod does not have; the executor and
\* the annotations are as they were.
C9_Witness ==
    /\ Len(calls) = 3
    /\ calls[1].op = "FindGCPServiceAccountSecret" /\ calls[1].ret.found
    /\ calls[2].op = "MountServiceAccountSecretToContainer"
    /\ calls[3].op = "MountSecretToContainer"
    /\ pod.Spec.Volumes = <<>>
    /\ Len(pod.Spec.Containers["driver"].VolumeMounts) = 2
    /\ Len(pod.Spec.Containers["driver"].Env) = 1
    /\ pod.Spec.Containers["executor"] = EmptyContainer
    /\ annotations = PodAnnotations

---------------------------------------------------------------------------
\* No other goroutine has made a call yet: g has run alone so far.
Solo(g) == \A h \in Goroutines \ {g} : pc[h] = "idle"

(* C6: one call of MountServiceAccountSecretToContainer(mountPath, c)      *)
(* appends exactly one volume mount (Name =                                *)
(* "gcp-service-account-secret-volume", MountPath = mountPath,             *)
(* ReadOnly = true) and exactly one variable (Name =                       *)
(* "GOOGLE_APPLICATION_CREDENTIALS", Value = mountPath "/" "key.json"),    *)
(* the mount first and the variable after it; the variable's value is the  *)
(* appended mount's MountPath followed by "/key.json".                     *)
C6_CredentialWiring ==
    \A g \in Goroutines :
        (thr[g].op = "MountServiceAccountSecretToContainer" /\ Solo(g)) =>
            LET mountPath == thr[g].args[1]
                before == thr[g].entry.Spec.Containers[thr[g].container]
                now == pod.Spec.Containers[thr[g].container]
                mount == [Name |-> "gcp-service-account-secret-volume",
                          MountPath |-> mountPath, ReadOnly |-> TRUE]
                var == [Name |-> "GOOGLE_APPLICATION_CREDENTIALS",
                        Value |-> mountPath \o "/" \o "key.json"]
            IN  /\ pc[g] \in {"readVolumeMounts", "writeVolumeMounts"} => now = before
                /\ pc[g] \in {"readEnv", "writeEnv"} =>
                      /\ now.VolumeMounts = Append(before.VolumeMounts, mount)
                      /\ now.Env = before.Env
                /\ pc[g] = "done" =>
                      /\ now.VolumeMounts = Append(before.VolumeMounts, mount)
                      /\ now.Env = Append(before.Env, var)
                      /\ now.Env[Len(now.Env)].Value
                            = now.VolumeMounts[Len(now.VolumeMounts)].MountPath \o "/key.json"

\* The call made with "/mnt/a" on the empty executor container, run alone to
\* its end: one mount at "/mnt/a", one variable of value "/mnt/a/key.json".
C6_Witness ==
    \E g \in Goroutines :
        /\ Solo(g) /\ pc[g] = "done"
        /\ thr[g].op = "MountServiceAccountSecretToContainer"
        /\ thr[g].args = <<"/mnt/a">> /\ thr[g].container = "executor"
        /\ thr[g].entry.Spec.Containers["executor"] = EmptyContainer
        /\ Len(pod.Spec.Containers["executor"].VolumeMounts) = 1
        /\ pod.Spec.Containers["executor"].Env =
              << [Name |-> "GOOGLE_APPLICATION_CREDENTIALS", Value |-> "/mnt/a/key.json"] >>

---------------------------------------------------------------------------
\* The slices of a pod that the calls append to.
Kinds == {"Volumes", "VolumeMounts", "Env"}

Slice(p, kind, c) ==
    CASE kind = "Volumes"      -> p.Spec.Volumes
      [] kind = "VolumeMounts" -> p.Spec.Containers[c].VolumeMounts
      [] kind = "Env"          -> p.Spec.Containers[c].Env

\* Whether g's call appends to the slice, and the entry it appends.
AppendsTo(g, kind) ==
    CASE kind = "Volumes"      -> thr[g].op = "AddSecretVolumeToPod"
      [] kind = "VolumeMounts" -> thr[g].op \in {"MountSecretToContainer",
                                                 "MountServiceAccountSecretToContainer"}
      [] kind = "Env"          -> thr[g].op = "MountServiceAccountSecretToContainer"

EntryOf(g, kind) ==
    CASE kind = "Volumes" ->
             [Name |-> thr[g].args[1],
              VolumeSource |-> [Secret |-> [SecretName |-> thr[g].args[2]]]]
      [] kind = "VolumeMounts" /\ thr[g].op = "MountSecretToContainer" ->
             [Name |-> thr[g].args[1], MountPath |-> thr[g].args[2], ReadOnly |-> TRUE]
      [] kind = "VolumeMounts" /\ thr[g].op # "MountSecretToContainer" ->
             [Name |-> "gcp-service-account-secret-volume",
              MountPath |-> thr[g].args[1], ReadOnly |-> TRUE]
      [] kind = "Env" ->
             [Name |-> "GOOGLE_APPLICATION_CREDENTIALS",
              Value |-> thr[g].args[1] \o "/key.json"]

\* g made its call first, h second; both calls are over and both append to the
\* same slice of the same descriptor.
BothAppended(g, h, kind) ==
    /\ g # h
    /\ pc[g] = "done" /\ pc[h] = "done"
    /\ thr[g].first
    /\ AppendsTo(g, kind) /\ AppendsTo(h, kind)
    /\ kind # "Volumes" => thr[g].container = thr[h].container

(* C10: two calls that append to the same slice of one descriptor: when    *)
(* the second call is made after the first is over, the slice ends as what *)
(* it was, then the first call's entry, then the second's; when the calls  *)
(* overlap, the slice ends with both entries or with only one of them.     *)
C10_SerializedKeepsBoth ==
    \A g, h \in Goroutines : \A kind \in Kinds :
        BothAppended(g, h, kind) =>
            LET base == Slice(thr[g].entry, kind, thr[g].container)
                now == Slice(pod, kind, thr[g].container)
                eg == EntryOf(g, kind)
                eh == EntryOf(h, kind)
            IN  /\ ~thr[h].concurrent => now = base \o <<eg, eh>>
                /\ now \in {base \o <<eg, eh>>, base \o <<eh, eg>>,
                            base \o <<eg>>, base \o <<eh>>}

\* A lost update: a MountSecretToContainer call and a
\* MountServiceAccountSecretToContainer call on one container overlapped, and
\* the container has the mount of only one of them.
C10_Witness ==
    \E g, h \in Goroutines :
        /\ BothAppended(g, h, "VolumeMounts")
        /\ thr[g].op # thr[h].op
        /\ thr[h].concurrent
        /\ Len(Slice(pod, "VolumeMounts", thr[g].container))
              = Len(Slice(thr[g].entry, "VolumeMounts", thr[g].container)) + 1

\* The same for two AddSecretVolumeToPod calls of different volumes.
LostVolume ==
    \E g, h \in Goroutines :
        /\ BothAppended(g, h, "Volumes")
        /\ EntryOf(g, "Volumes") # EntryOf(h, "Volumes")
        /\ Len(pod.Spec.Volumes) = Len(thr[g].entry.Spec.Volumes) + 1

\* The same for the variables of two MountServiceAccountSecretToContainer calls
\* whose mounts were both kept.
LostEnv ==
    \E g, h \in Goroutines :
        /\ BothAppended(g, h, "Env")
        /\ Len(Slice(pod, "Env", thr[g].container))
              = Len(Slice(thr[g].entry, "Env", thr[g].container)) + 1
        /\ Len(Slice(pod, "VolumeMounts", thr[g].container))
              = Len(Slice(thr[g].entry, "VolumeMounts", thr[g].container)) + 2

=============================================================================
